---- MODULE Spec2Model ----
(***************************************************************************)
(* Lunaris: instance lifecycle orchestration.                              *)
(*                                                                         *)
(* The module models the two registries (RunningInstances, RunningStreams),*)
(* the compute backend as the handlers observe it, the deploy and the      *)
(* terminate workflow (one action per workflow step, each translated from   *)
(* the step's Lambda handler) and the API handlers that start them.        *)
(***************************************************************************)
EXTENDS Integers, Sequences, FiniteSets, TLC

\* ------------------------------------------------------------------ bounds
\* Number of workflow executions (deploy and terminate together) that may be
\* started in one behaviour.
MaxExecs == 3
\* Number of infrastructure failures (a registry call, a backend call or a
\* provisioning step that fails) that may happen in one behaviour.
MaxFaults == 1
\* Number of wrapper and handler calls issued in one behaviour of SpecEC2.
MaxCalls == 3

Users == {"u1", "u2"}
Execs == 1..MaxExecs
Terms == 1..MaxExecs

\* ------------------------------------------------------- registry records
\* instanceId of the tracking record written when a deploy is started.
PlaceholderId(e) == <<"pending", e>>
\* instanceId the backend assigns to the instance created by execution e.
RealId(e) == <<"i", e>>
Keys == {PlaceholderId(e) : e \in Execs} \cup {RealId(e) : e \in Execs}
IsPlaceholder(k) == k[1] = "pending"

NoUser == "-"
NoArn == <<"-", 0>>
\* The absent item of the RunningInstances table.
NoRec == [userId |-> NoUser, status |-> "absent", executionArn |-> NoArn, creationTime |-> 0]

\* RunningInstances item attributes the handlers read and write.
InstanceRec(u, st, arn, ct) ==
    [userId |-> u, status |-> st, executionArn |-> arn, creationTime |-> ct]

VARIABLES
    instances,   \* RunningInstances: instanceId -> item (NoRec when absent)
    streamSeq,   \* RunningStreams items, oldest createdAt first; item e is keyed by the arn of RealId(e)
    ec2,         \* backend state of the instance of execution e ("none" before RunInstances)
    dep,         \* deploy executions
    nextD,       \* deploy executions started so far
    ter,         \* terminate executions
    nextT,       \* terminate executions started so far
    faults,      \* infrastructure failures so far
    last,        \* the handler invocation that produced this state, with its inputs and result
    backend,     \* SpecEC2: state of the instance at the backend
    item,        \* SpecEC2: status of the instance's RunningInstances item
    calls,       \* SpecEC2: number of wrapper and handler calls made
    sent,        \* SpecEC2: number of TerminateInstances commands the backend received
    sfn,         \* SpecStatus: one workflow execution at the orchestrator, with its event history
    wait,        \* SpecWait: one run of a wait loop for a remote command
    hook,        \* SpecPoll: the client's status polling hook and the requests it has in flight
    dcv          \* SpecDcv: the instance's remote-desktop server: its tag, installs and sessions

vars == <<instances, streamSeq, ec2, dep, nextD, ter, nextT, faults, last, backend, item, calls, sent,
         sfn, wait, hook, dcv>>
lifecycleVars == <<instances, streamSeq, ec2, dep, nextD, ter, nextT, faults>>
ec2Vars == <<backend, item, calls, sent>>
auxVars == <<sfn, wait, hook, dcv>>

NoLast == [op |-> "none"]

\* ---------------------------------------------------------- registry reads
\* RunningStreams UserIdIndex query: the items of user u, oldest first.
StreamOwner(e) == dep[e].user
QueryStreamsByUser(u) == SelectSeq(streamSeq, LAMBDA e : StreamOwner(e) = u)

\* RunningInstances UserIdIndex query: the keys of the items of user u.
InstancesOfUser(u) == {k \in Keys : instances[k].userId = u}

NonTerminatedOfUser(u) ==
    {k \in InstancesOfUser(u) : instances[k].status # "terminated"}

SeqWithout(s, x) == SelectSeq(s, LAMBDA y : y # x)

Except(f, k, v) == [f EXCEPT ![k] = v]

\* A step in which an infrastructure failure happens uses up one of MaxFaults.
Fault(failed) ==
    IF failed THEN faults < MaxFaults /\ faults' = faults + 1 ELSE faults' = faults

\* ------------------------------------------------------------ deploy: API
\* Steps of the deploy workflow that run a handler; the Choice
\* CheckIfValidStream and the Wait WaitForInstanceReady are taken together
\* with the step before them.
DeployPcs == {"idle", "CheckRunningStreams", "DeployEC2", "ConfigureDcvInstance",
              "UpdateRunningStreams", "DeploymentSuccess", "Failed"}

\* activeAtCheck is history: whether a RunningStreams item of the user existed
\* when the CheckRunningStreams step ran.
\* deployed is history too: the outcome of the DeployEC2 step ("-" before it).
IdleDeploy == [user |-> NoUser, pc |-> "idle", streamsRunning |-> FALSE,
               activeAtCheck |-> FALSE, deployed |-> "-", error |-> "-"]

\* handleDeployInstance: start the execution, then store the placeholder item;
\* a failed put is logged and the request still succeeds.
\* A request without userId, or with the table or the workflow ARN unset,
\* returns 400/500 before either call and changes nothing.
handleDeployInstance(u, putOk) ==
    /\ nextD + nextT < MaxExecs
    /\ Fault(~putOk)
    /\ LET e == nextD + 1 IN
        /\ nextD' = e
        /\ dep' = Except(dep, e, [IdleDeploy EXCEPT !.user = u, !.pc = "CheckRunningStreams"])
        /\ instances' = IF putOk
                        THEN Except(instances, PlaceholderId(e),
                                    InstanceRec(u, "deploying", <<"D", e>>, e))
                        ELSE instances
        /\ last' = NoLast
    /\ UNCHANGED <<streamSeq, ec2, ter, nextT, ec2Vars, auxVars>>

\* ------------------------------------------------- deploy: workflow steps
\* check-running-streams handler: streamsRunning = items.length > 0.
HasActiveStreamOff(u) == Len(QueryStreamsByUser(u)) > 1
HasActiveStream(u) == Len(QueryStreamsByUser(u)) > 0

\* Choice on the check's result: an active stream fails the execution with
\* StreamAlreadyActive, otherwise the instance is provisioned.
CheckIfValidStream(d, streamsRunning) ==
    IF streamsRunning
    THEN [d EXCEPT !.pc = "Failed", !.error = "StreamAlreadyActive"]
    ELSE [d EXCEPT !.pc = "DeployEC2"]

CheckRunningStreams(e) ==
    /\ dep[e].pc = "CheckRunningStreams"
    /\ LET streamsRunning == HasActiveStream(dep[e].user)
           active == \E i \in 1..Len(streamSeq) : StreamOwner(streamSeq[i]) = dep[e].user
       IN  dep' = Except(dep, e,
                         CheckIfValidStream([dep[e] EXCEPT !.streamsRunning = streamsRunning,
                                                           !.activeAtCheck = active],
                                            streamsRunning))
    /\ last' = NoLast
    /\ UNCHANGED <<faults, instances, streamSeq, ec2, nextD, ter, nextT, ec2Vars, auxVars>>

\* deploy-ec2 handler: createAndWaitForInstance; every failure is caught and
\* returned as {success: false}.
\*   createFailed: no AMI id, or RunInstances rejected: no instance exists.
\*   waitFailed:   the instance was launched and the wait for running failed.
DeployOutcomes == {"ok", "createFailed", "waitFailed"}

DeployEc2ResultOptimistic(outcome) ==
    [success |-> outcome # "createFailed",
     created |-> outcome # "createFailed",
     state   |-> IF outcome = "ok" THEN "running" ELSE "pending"]
DeployEc2Result(outcome) ==
    [success |-> outcome = "ok",
     created |-> outcome # "createFailed",
     state   |-> IF outcome = "ok" THEN "running" ELSE "pending"]

\* The workflow configures the instance only after a successful deploy step.
AfterDeployEC2(d, success) ==
    IF success
    THEN [d EXCEPT !.pc = "ConfigureDcvInstance"]
    ELSE [d EXCEPT !.pc = "Failed", !.error = "DeployFailed"]

DeployEC2(e, outcome) ==
    /\ dep[e].pc = "DeployEC2"
    /\ Fault(outcome # "ok")
    /\ LET r == DeployEc2Result(outcome) IN
        /\ ec2' = IF r.created THEN Except(ec2, e, r.state) ELSE ec2
        /\ dep' = Except(dep, e, AfterDeployEC2([dep[e] EXCEPT !.deployed = outcome],
                                                r.success))
        /\ last' = NoLast
    /\ UNCHANGED <<instances, streamSeq, nextD, ter, nextT, ec2Vars, auxVars>>

\* configure-dcv-instance handler: success = passwordSet && sslConfigured;
\* a partial failure is returned, not thrown, and the workflow goes on.
ConfigureDcvInstance(e, passwordSet, sslConfigured) ==
    /\ dep[e].pc = "ConfigureDcvInstance"
    /\ dep' = Except(dep, e, [dep[e] EXCEPT !.pc = "UpdateRunningStreams"])
    /\ last' = NoLast
    /\ UNCHANGED <<faults, instances, streamSeq, ec2, nextD, ter, nextT, ec2Vars, auxVars>>

\* update-running-streams handler of the deploy workflow.
\*   streamWriteFails: the RunningStreams update throws; the step fails.
\*   lookupFails: RUNNING_INSTANCES_TABLE is unset or the placeholder query throws.
\*   deleteFails / putFails: the DeleteCommand / PutCommand throws.
\* Everything after the RunningStreams update is inside a try whose catch only logs.
PersistOutcomes == {"ok", "streamWriteFails", "lookupFails", "deleteFails", "putFails"}

\* Query on UserIdIndex with begins_with(instanceId, "pending-"): the user's
\* placeholder items in index order (creationTime ascending).
PlaceholdersOfUser(u) == {k \in InstancesOfUser(u) : IsPlaceholder(k)}

\* queryResult.Items[0]
FirstPlaceholder(u) ==
    LET ps == PlaceholdersOfUser(u) IN
    CHOOSE k \in ps : \A j \in ps : instances[k].creationTime <= instances[j].creationTime

\* The RunningInstances table after the placeholder swap of the handler.
SwapPlaceholder(tbl, u, e, outcome) ==
    IF outcome = "lookupFails" \/ PlaceholdersOfUser(u) = {}
    THEN tbl
    ELSE LET old == FirstPlaceholder(u)
             oldRecord == tbl[old]
             deleted == Except(tbl, old, NoRec)
         IN  CASE outcome = "deleteFails" -> tbl
               [] outcome = "putFails"    -> deleted
               [] OTHER -> Except(deleted, RealId(e),
                                  InstanceRec(u, "running", oldRecord.executionArn,
                                              oldRecord.creationTime))

\* db.updateItem({instanceArn}, ...): creates the item or updates it in place
\* (createdAt = if_not_exists(createdAt, now) keeps its place in the index).
UpsertStream(seq, e) ==
    IF \E i \in 1..Len(seq) : seq[i] = e THEN seq ELSE Append(seq, e)

UpdateRunningStreams(e, outcome) ==
    /\ dep[e].pc = "UpdateRunningStreams"
    /\ Fault(outcome # "ok")
    /\ IF outcome = "streamWriteFails"
       THEN /\ dep' = Except(dep, e, [dep[e] EXCEPT !.pc = "Failed", !.error = "UpdateFailed"])
            /\ last' = NoLast
            /\ UNCHANGED <<instances, streamSeq>>
       ELSE /\ streamSeq' = UpsertStream(streamSeq, e)
            /\ instances' = SwapPlaceholder(instances, dep[e].user, e, outcome)
            /\ dep' = Except(dep, e, [dep[e] EXCEPT !.pc = "DeploymentSuccess"])
            /\ last' = [op |-> "UpdateRunningStreams", e |-> e, outcome |-> outcome]
    /\ UNCHANGED <<ec2, nextD, ter, nextT, ec2Vars, auxVars>>

\* ------------------------------------------------------- compute backend
\* The backend moves an instance on by itself: a launched instance starts
\* running, a terminating one becomes terminated, and a terminated one is
\* eventually purged (describe then reports it as not found).
BackendNext(st) ==
    CASE st = "pending"       -> "running"
      [] st = "stopping"      -> "stopped"
      [] st = "shutting-down" -> "terminated"
      [] st = "terminated"    -> "not-found"
      [] OTHER                -> st

BackendProgress(e) ==
    /\ ec2[e] \in {"pending", "shutting-down", "terminated"}
    /\ ec2' = Except(ec2, e, BackendNext(ec2[e]))
    /\ last' = NoLast
    /\ UNCHANGED <<faults, instances, streamSeq, dep, nextD, ter, nextT, ec2Vars, auxVars>>

\* ------------------------------------------------------------ EC2Wrapper
\* States the backend can report for an instance; "rebooting" stands for any
\* state name the switch of canTerminate does not list.
BackendStates == {"pending", "running", "stopping", "stopped", "shutting-down",
                  "terminated", "rebooting", "not-found"}

\* Error messages. MsgInstanceNotFound is ErrorMessages.INSTANCE_NOT_FOUND, the
\* text the wrapper itself throws; the others are texts that do not contain it.
MsgInstanceNotFound == "Instance does not exist or is not available"
MsgBackendNotFound == "InvalidInstanceID.NotFound"
MsgBackendError == "RequestLimitExceeded"
MsgPending == "Instance is in a pending state and cannot be terminated yet"
MsgUnsupported == "Unknown or unsupported instance state"
MsgStopWait == "Timeout or error waiting for instance to stop"
MsgTerminationFailed == "Failed to terminate the instance"
MsgWaiterTimedOut == "WaiterTimedOut"
MsgWaitTerminationFailed == "Failed to wait for termination of the instance"

\* errorMessage.includes(ErrorMessages.INSTANCE_NOT_FOUND)
IncludesInstanceNotFound(msg) == msg = MsgInstanceNotFound

\* What DescribeInstances can answer for an instance in state st. An unknown
\* instance is reported by an InvalidInstanceID.NotFound exception or by a
\* response without reservations; any call can fail with a backend error.
DescribeReplies(st) ==
    IF st = "not-found"
    THEN {[kind |-> "empty"], [kind |-> "error", msg |-> MsgBackendNotFound]}
    ELSE {[kind |-> "instance", state |-> st], [kind |-> "error", msg |-> MsgBackendError]}

Value(v) == [threw |-> FALSE, value |-> v]
Throw(m) == [threw |-> TRUE, msg |-> m]

\* getInstanceDetails: the state of the instance, or a throw.
getInstanceDetails(reply) ==
    CASE reply.kind = "instance" -> Value(reply.state)
      [] reply.kind = "empty"    -> Throw(MsgInstanceNotFound)
      [] OTHER                   -> Throw(reply.msg)

\* handleStoppingState: waitUntilInstanceStopped, true or a throw.
handleStoppingState(stopWaitOk) ==
    IF stopWaitOk THEN Value(TRUE) ELSE Throw(MsgStopWait)

\* The switch of canTerminate on the described state.
canTerminateSwitchOff(state, stopWaitOk) ==
    CASE state = "pending"       -> Throw(MsgPending)
      [] state = "stopping"      -> handleStoppingState(stopWaitOk)
      [] state = "shutting-down" -> Value(TRUE)
      [] state = "terminated"    -> Value(FALSE)
      [] state \in {"running", "stopped"} -> Value(TRUE)
      [] OTHER                   -> Throw(MsgUnsupported)
canTerminateSwitchBusy(state, stopWaitOk) ==
    CASE state = "pending"       -> Value(TRUE)
      [] state = "stopping"      -> handleStoppingState(stopWaitOk)
      [] state \in {"shutting-down", "terminated"} -> Value(FALSE)
      [] state \in {"running", "stopped"} -> Value(TRUE)
      [] OTHER                   -> Throw(MsgUnsupported)
canTerminateSwitch(state, stopWaitOk) ==
    CASE state = "pending"       -> Throw(MsgPending)
      [] state = "stopping"      -> handleStoppingState(stopWaitOk)
      [] state = "shutting-down" -> Value(FALSE)
      [] state = "terminated"    -> Value(FALSE)
      [] state \in {"running", "stopped"} -> Value(TRUE)
      [] OTHER                   -> Throw(MsgUnsupported)

\* canTerminate: the catch turns a throw whose message contains
\* INSTANCE_NOT_FOUND into false and rethrows every other one.
canTerminate(reply, stopWaitOk) ==
    LET details == getInstanceDetails(reply)
        r == IF details.threw THEN details
             ELSE canTerminateSwitch(details.value, stopWaitOk)
    IN  IF r.threw /\ IncludesInstanceNotFound(r.msg) THEN Value(FALSE) ELSE r

\* What TerminateInstances can answer: the instance now shutting down, a
\* response without TerminatingInstances, or an exception.
SendReplies == {"ok", "empty", "error"}

\* terminateInstance: result, and whether TerminateInstances was sent.
\*   sentCmd: the command reached the backend; accepted: the backend took it.
terminateInstance(reply, stopWaitOk, sendReply) ==
    LET can == canTerminate(reply, stopWaitOk) IN
    IF can.threw
    THEN [threw |-> TRUE, msg |-> can.msg, sentCmd |-> FALSE, accepted |-> FALSE]
    ELSE IF ~can.value
    THEN [threw |-> FALSE, state |-> "terminated", wasAlreadyTerminated |-> TRUE,
          sentCmd |-> FALSE, accepted |-> FALSE]
    ELSE CASE sendReply = "ok" ->
                [threw |-> FALSE, state |-> "shutting-down", wasAlreadyTerminated |-> FALSE,
                 sentCmd |-> TRUE, accepted |-> TRUE]
           [] sendReply = "empty" ->
                [threw |-> TRUE, msg |-> MsgTerminationFailed, sentCmd |-> TRUE,
                 accepted |-> FALSE]
           [] OTHER ->
                [threw |-> TRUE, msg |-> MsgBackendError, sentCmd |-> TRUE,
                 accepted |-> FALSE]

\* What waitUntilInstanceTerminated can end with for an instance in state st:
\* success once the instance is terminated, the backend's not-found exception
\* for an instance it no longer knows, and a timeout (or a failure state of
\* the waiter) for an instance that does not get terminated in time.
WaitReplies(st) ==
    CASE st = "not-found"     -> {MsgBackendNotFound}
      [] st = "terminated"    -> {"ok"}
      [] st = "shutting-down" -> {"ok", MsgWaiterTimedOut}
      [] OTHER                -> {MsgWaiterTimedOut}

\* waitForTermination: the waiter, then getInstanceDetails; the catch returns
\* state terminated for a message containing INSTANCE_NOT_FOUND and throws
\* WAIT_TERMINATION_FAILED otherwise.
waitForTermination(waitReply, reply) ==
    LET r == IF waitReply # "ok" THEN Throw(waitReply) ELSE getInstanceDetails(reply) IN
    IF ~r.threw
    THEN [threw |-> FALSE, state |-> r.value, wasAlreadyTerminated |-> FALSE]
    ELSE IF IncludesInstanceNotFound(r.msg)
    THEN [threw |-> FALSE, state |-> "terminated", wasAlreadyTerminated |-> FALSE]
    ELSE [threw |-> TRUE, msg |-> MsgWaitTerminationFailed]

\* ------------------------------------------------- terminate: step handler
\* DCVWrapper.stopDCVSession: the close command's failure is caught and
\* returned as stoppedSuccessfully = false.
stopDCVSessionOptimistic(closeOk) == [stoppedSuccessfully |-> TRUE]
stopDCVSession(closeOk) == [stoppedSuccessfully |-> closeOk]

\* What EBSWrapper.detachEBSVolume can do: return a state, or throw.
DetachOutcomes == {"detached", "detach-failed", "throws"}

MsgTerminated == "terminated successfully"
MsgAlreadyTerminated == "already terminated"

\* Inputs of one run of the terminate step against an instance in state st:
\* the backend's answers to the two describe calls, whether the instance has
\* a volume, the outcome of the session stop, of the detach, of the wait for
\* stopped, of TerminateInstances, and of the registry update. An input the
\* run does not consult has one fixed value.
TerminateInputs(st) ==
    {in \in [d1 : DescribeReplies(st), hasVolume : BOOLEAN, closeOk : BOOLEAN,
             detach : DetachOutcomes, d2 : DescribeReplies(st), stopWaitOk : BOOLEAN,
             send : SendReplies, dbOk : BOOLEAN] :
        LET details == getInstanceDetails(in.d1)
            can == canTerminate(in.d2, in.stopWaitOk)
        IN  /\ details.threw => (in.hasVolume /\ in.closeOk)
            /\ (details.threw \/ ~in.hasVolume) => in.detach = "detached"
            /\ (in.d2.kind # "instance" \/ st # "stopping") => in.stopWaitOk
            /\ (can.threw \/ ~can.value) => in.send = "ok"
            /\ terminateInstance(in.d2, in.stopWaitOk, in.send).threw => in.dbOk}

\* The inputs hold an infrastructure failure: a describe or terminate call
\* that fails, a session stop or a detach that fails, a failed registry update.
FaultyInputs(in) ==
    \/ in.d1.kind = "error" /\ in.d1.msg = MsgBackendError
    \/ in.d2.kind = "error" /\ in.d2.msg = MsgBackendError
    \/ ~in.closeOk
    \/ in.detach # "detached"
    \/ ~in.stopWaitOk
    \/ in.send # "ok"
    \/ ~in.dbOk

\* terminateWorkflow, as called by the handler of the TerminateEC2 step. The
\* handler rethrows whatever terminateWorkflow throws.
terminateWorkflowLenient(in) ==
    LET details == getInstanceDetails(in.d1)
        stopTried == ~details.threw
        detachTried == ~details.threw /\ in.hasVolume
        term == terminateInstance(in.d2, in.stopWaitOk, in.send)
    IN  [threw |-> FALSE, success |-> TRUE,
         dcvStopped |-> stopTried /\ stopDCVSession(in.closeOk).stoppedSuccessfully,
         detachVolumeState |-> IF detachTried /\ in.detach # "throws"
                               THEN in.detach ELSE "skipped",
         terminateInstanceState |-> IF term.threw THEN "unknown" ELSE term.state,
         dynamoDbUpdateStatus |-> IF in.dbOk THEN "updated" ELSE "not_found",
         message |-> MsgTerminated,
         sentCmd |-> term.sentCmd, accepted |-> term.accepted,
         registryWrite |-> in.dbOk,
         effects |-> {"describe"}
                     \cup (IF stopTried THEN {"stopSession"} ELSE {})
                     \cup (IF detachTried THEN {"detach"} ELSE {})
                     \cup (IF term.sentCmd THEN {"terminateCmd"} ELSE {})
                     \cup (IF in.dbOk THEN {"registryWrite"} ELSE {})]
terminateWorkflow(in) ==
    LET details == getInstanceDetails(in.d1)
        stopTried == ~details.threw
        detachTried == ~details.threw /\ in.hasVolume
        term == terminateInstance(in.d2, in.stopWaitOk, in.send)
        effectsBefore == {"describe"}
                         \cup (IF stopTried THEN {"stopSession"} ELSE {})
                         \cup (IF detachTried THEN {"detach"} ELSE {})
                         \cup (IF term.sentCmd THEN {"terminateCmd"} ELSE {})
    IN  IF term.threw
        THEN [threw |-> TRUE, success |-> FALSE, msg |-> term.msg,
              sentCmd |-> term.sentCmd, accepted |-> term.accepted,
              registryWrite |-> FALSE, effects |-> effectsBefore]
        ELSE [threw |-> FALSE, success |-> TRUE,
              dcvStopped |-> stopTried /\ stopDCVSession(in.closeOk).stoppedSuccessfully,
              detachVolumeState |-> IF detachTried /\ in.detach # "throws"
                                    THEN in.detach ELSE "skipped",
              terminateInstanceState |-> term.state,
              dynamoDbUpdateStatus |-> IF in.dbOk THEN "updated" ELSE "not_found",
              message |-> MsgTerminated,
              sentCmd |-> term.sentCmd, accepted |-> term.accepted,
              registryWrite |-> in.dbOk,
              effects |-> effectsBefore \cup (IF in.dbOk THEN {"registryWrite"} ELSE {})]

\* ---------------------------------------------------------- terminate: API
IdleTerminate == [user |-> NoUser, pc |-> "idle", valid |-> FALSE, inst |-> 0,
                  wasTerminated |-> FALSE, sentCmd |-> FALSE, error |-> "-"]

\* History for a terminate execution: when it was started the user had a
\* GamingInstance item and every item of the user had status terminated.
AlreadyTerminated(u) ==
    /\ InstancesOfUser(u) # {}
    /\ NonTerminatedOfUser(u) = {}

\* UpdateCommand on Key {instanceId}: SET creates the item when it is absent.
UpdateInstance(tbl, k, st, arn) ==
    Except(tbl, k, [tbl[k] EXCEPT !.status = st, !.executionArn = arn])

\* runningInstancesTable.updateItem({instanceId}, SET #status = :status ...)
UpdateStatus(tbl, k, st) == Except(tbl, k, [tbl[k] EXCEPT !.status = st])

\* handleTerminateInstance: start the execution with {userId}, then set the
\* item of the request's instanceId to terminating with the execution ARN; a
\* failed update is logged and the request still succeeds. A request without
\* userId or instanceId, or with missing configuration, returns 400/500
\* before either call and changes nothing.
handleTerminateInstance(u, k, updOk) ==
    /\ nextD + nextT < MaxExecs
    /\ Fault(~updOk)
    /\ LET t == nextT + 1 IN
        /\ nextT' = t
        /\ ter' = Except(ter, t, [IdleTerminate EXCEPT !.user = u,
                                                        !.pc = "CheckRunningStreams",
                                                        !.wasTerminated = AlreadyTerminated(u)])
        /\ instances' = IF updOk
                        THEN UpdateInstance(instances, k, "terminating", <<"T", t>>)
                        ELSE instances
        /\ last' = NoLast
    /\ UNCHANGED <<streamSeq, ec2, dep, nextD, ec2Vars, auxVars>>

\* ---------------------------------------------- terminate: workflow steps
\* check-running-streams handler of the terminate workflow: the user's most
\* recent RunningStreams item (ScanIndexForward: false), or valid = false.
TerminateCheck(u) ==
    LET items == QueryStreamsByUser(u) IN
    IF Len(items) = 0
    THEN [valid |-> FALSE, inst |-> 0]
    ELSE [valid |-> TRUE, inst |-> items[Len(items)]]

\* The workflow goes on to TerminateEC2 only for a valid check result.
TCheckIfValidStream(x, r) ==
    IF r.valid
    THEN [x EXCEPT !.valid = TRUE, !.inst = r.inst, !.pc = "TerminateEC2"]
    ELSE [x EXCEPT !.pc = "Failed", !.error = "InvalidStreamError"]

TCheckRunningStreams(t) ==
    /\ ter[t].pc = "CheckRunningStreams"
    /\ ter' = Except(ter, t, TCheckIfValidStream(ter[t], TerminateCheck(ter[t].user)))
    /\ last' = NoLast
    /\ UNCHANGED <<faults, instances, streamSeq, ec2, dep, nextD, nextT, ec2Vars, auxVars>>

\* terminate-ec2 handler, run with the instanceId of the check's item.
TerminateEC2(t, in) ==
    /\ ter[t].pc = "TerminateEC2"
    /\ LET i == ter[t].inst
           r == terminateWorkflow(in)
       IN
        /\ in \in TerminateInputs(ec2[i])
        /\ Fault(FaultyInputs(in))
        /\ ec2' = IF r.accepted THEN Except(ec2, i, "shutting-down") ELSE ec2
        /\ instances' = IF r.registryWrite
                        THEN UpdateStatus(instances, RealId(i), "terminated")
                        ELSE instances
        /\ ter' = Except(ter, t,
                         IF r.threw
                         THEN [ter[t] EXCEPT !.pc = "Failed", !.error = "TerminateFailed",
                                             !.sentCmd = r.sentCmd]
                         ELSE [ter[t] EXCEPT !.pc = "UpdateRunningStreams",
                                             !.sentCmd = r.sentCmd])
        /\ last' = NoLast
    /\ UNCHANGED <<streamSeq, dep, nextD, nextT, ec2Vars, auxVars>>

TerminateEC2Step(t) ==
    /\ ter[t].pc = "TerminateEC2"
    /\ \E in \in TerminateInputs(ec2[ter[t].inst]) : TerminateEC2(t, in)

\* update-running-streams handler of the terminate workflow: delete the
\* RunningStreams item of the check's instanceArn; a failed delete throws.
TUpdateRunningStreams(t, delOk) ==
    /\ ter[t].pc = "UpdateRunningStreams"
    /\ Fault(~delOk)
    /\ IF delOk
       THEN /\ streamSeq' = SeqWithout(streamSeq, ter[t].inst)
            /\ ter' = Except(ter, t, [ter[t] EXCEPT !.pc = "TerminationSuccess"])
       ELSE /\ streamSeq' = streamSeq
            /\ ter' = Except(ter, t, [ter[t] EXCEPT !.pc = "Failed",
                                                    !.error = "UpdateFailed"])
    /\ last' = [op |-> "TUpdateRunningStreams", t |-> t]
    /\ UNCHANGED <<instances, ec2, dep, nextD, nextT, ec2Vars, auxVars>>

\* The instanceId of a terminate request: the client sends the identifier of
\* an instance it was given by the status or the streaming-session response.
TerminateTargets == {RealId(e) : e \in {x \in Execs : ec2[x] # "none"}}

\* ------------------------------------------- idle values of the other parts
\* No execution is being watched, no wait loop runs, the hook is not polling.
IdleSfn == [workflow |-> "-", userId |-> "-", idx |-> 0, phase |-> "idle",
            status |-> "-", history |-> <<>>, error |-> ""]
NoResult == [kind |-> "none"]
IdleWait == [loop |-> "-", phase |-> "idle", timeout |-> 0, elapsed |-> 0, polls |-> 0,
             resp |-> "none", result |-> NoResult]
IdleDcv == [configured |-> FALSE, installs |-> 0, sessions |-> 0, calls |-> 0]
IdleHook == [mounted |-> FALSE, interval |-> FALSE, isPolling |-> FALSE, status |-> "null",
             inflight |-> <<>>, sent |-> 0, terminal |-> FALSE, server |-> "RUNNING",
             session |-> 0, cancelled |-> FALSE, onSuccess |-> 0, onError |-> 0]

\* ------------------------------------------------------- the lifecycle spec
Init ==
    /\ instances = [k \in Keys |-> NoRec]
    /\ streamSeq = <<>>
    /\ ec2 = [e \in Execs |-> "none"]
    /\ dep = [e \in Execs |-> IdleDeploy]
    /\ nextD = 0
    /\ ter = [t \in Terms |-> IdleTerminate]
    /\ nextT = 0
    /\ faults = 0
    /\ last = NoLast
    /\ backend = "running"
    /\ item = "absent"
    /\ calls = 0
    /\ sent = 0
    /\ sfn = IdleSfn
    /\ wait = IdleWait
    /\ hook = IdleHook
    /\ dcv = IdleDcv

Next ==
    \/ \E u \in Users, putOk \in BOOLEAN : handleDeployInstance(u, putOk)
    \/ \E e \in Execs : CheckRunningStreams(e)
    \/ \E e \in Execs, o \in DeployOutcomes : DeployEC2(e, o)
    \/ \E e \in Execs, p \in BOOLEAN, c \in BOOLEAN : ConfigureDcvInstance(e, p, c)
    \/ \E e \in Execs, o \in PersistOutcomes : UpdateRunningStreams(e, o)
    \/ \E e \in Execs : BackendProgress(e)
    \/ \E u \in Users, updOk \in BOOLEAN :
          \E k \in TerminateTargets : handleTerminateInstance(u, k, updOk)
    \/ \E t \in Terms : TCheckRunningStreams(t)
    \/ \E t \in Terms : TerminateEC2Step(t)
    \/ \E t \in Terms, delOk \in BOOLEAN : TUpdateRunningStreams(t, delOk)

Spec == Init /\ [][Next]_vars

\* The steps of the two workflows. Step Functions runs every started
\* execution on to an end state; whether a client makes another request is
\* left open.
ExecutionSteps ==
    \/ \E e \in Execs : CheckRunningStreams(e)
    \/ \E e \in Execs, o \in DeployOutcomes : DeployEC2(e, o)
    \/ \E e \in Execs, p \in BOOLEAN, c \in BOOLEAN : ConfigureDcvInstance(e, p, c)
    \/ \E e \in Execs, o \in PersistOutcomes : UpdateRunningStreams(e, o)
    \/ \E t \in Terms : TCheckRunningStreams(t)
    \/ \E t \in Terms : TerminateEC2Step(t)
    \/ \E t \in Terms, delOk \in BOOLEAN : TUpdateRunningStreams(t, delOk)

SpecFair == Spec /\ WF_vars(ExecutionSteps)


\* ------------------------------------- the wrapper and the terminate step
\* SpecEC2 runs the EC2Wrapper methods and the handler of the TerminateEC2
\* step against one instance whose backend state and registry item start in
\* any state, with every answer the backend can give.

\* The instance after a call that waited for it to stop.
AfterStopWait(st, reply, stopWaitOk) ==
    IF st = "stopping" /\ reply.kind = "instance" /\ stopWaitOk THEN "stopped" ELSE st

StopWaits(st) == IF st = "stopping" THEN BOOLEAN ELSE {TRUE}

canTerminateCall ==
    /\ calls < MaxCalls
    /\ \E reply \in DescribeReplies(backend), stopWaitOk \in StopWaits(backend) :
        /\ last' = [op |-> "canTerminate", state |-> backend, reply |-> reply,
                    result |-> canTerminate(reply, stopWaitOk), sentBefore |-> sent]
        /\ backend' = AfterStopWait(backend, reply, stopWaitOk)
    /\ calls' = calls + 1
    /\ UNCHANGED <<item, sent, lifecycleVars, auxVars>>

terminateInstanceCall ==
    /\ calls < MaxCalls
    /\ \E reply \in DescribeReplies(backend), stopWaitOk \in StopWaits(backend),
          sendReply \in SendReplies :
        LET r == terminateInstance(reply, stopWaitOk, sendReply) IN
        /\ (~r.sentCmd) => sendReply = "ok"
        /\ last' = [op |-> "terminateInstance", state |-> backend, reply |-> reply,
                    result |-> r, sentBefore |-> sent]
        /\ sent' = IF r.sentCmd THEN sent + 1 ELSE sent
        /\ backend' = IF r.accepted THEN "shutting-down"
                      ELSE AfterStopWait(backend, reply, stopWaitOk)
    /\ calls' = calls + 1
    /\ UNCHANGED <<item, lifecycleVars, auxVars>>

\* The instance when the describe call that follows a successful wait runs:
\* terminated, or already purged.
AfterWait == {"terminated", "not-found"}

waitForTerminationCall ==
    /\ calls < MaxCalls
    /\ \E waitReply \in WaitReplies(backend) :
        IF waitReply = "ok"
        THEN \E st \in AfterWait : \E reply \in DescribeReplies(st) :
                /\ last' = [op |-> "waitForTermination", state |-> backend,
                            waitReply |-> waitReply, reply |-> reply,
                            result |-> waitForTermination(waitReply, reply),
                            sentBefore |-> sent]
                /\ backend' = st
        ELSE /\ last' = [op |-> "waitForTermination", state |-> backend,
                         waitReply |-> waitReply, reply |-> [kind |-> "none"],
                         result |-> waitForTermination(waitReply, [kind |-> "none"]),
                         sentBefore |-> sent]
             /\ backend' = backend
    /\ calls' = calls + 1
    /\ UNCHANGED <<item, sent, lifecycleVars, auxVars>>

\* The handler of the TerminateEC2 step, called with userId and instanceId.
terminateEc2Handler ==
    /\ calls < MaxCalls
    /\ \E in \in TerminateInputs(backend) :
        LET r == terminateWorkflow(in) IN
        /\ last' = [op |-> "terminateEc2", state |-> backend, item |-> item,
                    in |-> in, result |-> r, sentBefore |-> sent]
        /\ sent' = IF r.sentCmd THEN sent + 1 ELSE sent
        /\ backend' = IF r.accepted THEN "shutting-down"
                      ELSE AfterStopWait(backend, in.d2, in.stopWaitOk)
        /\ item' = IF r.registryWrite THEN "terminated" ELSE item
    /\ calls' = calls + 1
    /\ UNCHANGED <<lifecycleVars, auxVars>>

\* The backend moves the instance on between two calls.
InstanceProgress ==
    /\ BackendNext(backend) # backend
    /\ backend' = BackendNext(backend)
    /\ last' = NoLast
    /\ UNCHANGED <<item, calls, sent, lifecycleVars, auxVars>>

\* Status of a RunningInstances item that no terminate step has written yet.
ItemStatuses == {"absent", "running", "terminating"}

InitEC2 ==
    /\ instances = [k \in Keys |-> NoRec]
    /\ streamSeq = <<>>
    /\ ec2 = [e \in Execs |-> "none"]
    /\ dep = [e \in Execs |-> IdleDeploy]
    /\ nextD = 0
    /\ ter = [t \in Terms |-> IdleTerminate]
    /\ nextT = 0
    /\ faults = 0
    /\ last = NoLast
    /\ backend \in BackendStates
    /\ item \in ItemStatuses
    /\ calls = 0
    /\ sent = 0
    /\ sfn = IdleSfn
    /\ wait = IdleWait
    /\ hook = IdleHook
    /\ dcv = IdleDcv

NextEC2 ==
    \/ canTerminateCall
    \/ terminateInstanceCall
    \/ waitForTerminationCall
    \/ terminateEc2Handler
    \/ InstanceProgress

SpecEC2 == InitEC2 /\ [][NextEC2]_vars



\* ------------------------------------------------------ status aggregator
\* SpecStatus runs one execution of the deploy or of the terminate workflow
\* at the orchestrator, which appends to its event history, and answers
\* status requests of the user from that history.

DEPLOY_STEPS == <<"CheckRunningStreams", "CheckIfValidStream", "DeployEC2",
                  "WaitForInstanceReady", "ConfigureDcvInstance", "UpdateRunningStreams",
                  "DeploymentSuccess">>
TERMINATE_STEPS == <<"CheckRunningStreams", "TerminateEC2", "UpdateRunningStreams",
                     "TerminationSuccess">>

\* displayName of a step of the list.
DisplayName(name) == <<"displayName", name>>

\* The kind of workflow state a step of the lists is.
StateType(name) ==
    CASE name = "CheckIfValidStream" -> "Choice"
      [] name = "WaitForInstanceReady" -> "Wait"
      [] name \in {"DeploymentSuccess", "TerminationSuccess"} -> "Succeed"
      [] OTHER -> "Task"

WorkflowNames == {"UserDeployEC2Workflow", "UserTerminateEC2Workflow"}
WorkflowSteps(w) == IF w = "UserTerminateEC2Workflow" THEN TERMINATE_STEPS ELSE DEPLOY_STEPS

\* User ids of the status requests; the second one contains "Terminate".
StatusUsers == {"u1", "Terminator"}

\* The execution ARN ends in <state machine name>:<userId>-<timestamp>.
ExecutionArn(w, u) == <<"execution", w, u>>

\* executionArn.includes("Terminate")
IncludesTerminate(arn) ==
    \E i \in 1..Len(arn) : arn[i] \in {"UserTerminateEC2Workflow", "Terminator"}

Event(type, name, error) == [type |-> type, name |-> name, error |-> error]

\* a || b on strings
OrElse(a, b) == IF a # "" THEN a ELSE b

\* Math.round((n / total) * 100)
RoundPercent(n, total) == (200 * n + total) \div (2 * total)

Position(steps, name) == CHOOSE i \in 1..Len(steps) : steps[i] = name
InSteps(steps, name) == \E i \in 1..Len(steps) : steps[i] = name
Includes(seq, x) == \E i \in 1..Len(seq) : seq[i] = x

RECURSIVE StepScan(_, _, _, _)
\* The for loop of getStepInfoFromHistory from event i on.
StepScan(events, steps, i, acc) ==
    IF i > Len(events)
    THEN [acc EXCEPT !.progress = RoundPercent(Len(acc.completedSteps), Len(steps))]
    ELSE LET ev == events[i] IN
         CASE ev.type \in {"TaskStateEntered", "WaitStateEntered"} ->
                StepScan(events, steps, i + 1,
                         IF ev.name = "" THEN acc
                         ELSE IF InSteps(steps, ev.name)
                         THEN [acc EXCEPT !.currentStep = ev.name,
                                          !.currentStepName = DisplayName(ev.name),
                                          !.stepNumber = Position(steps, ev.name)]
                         ELSE [acc EXCEPT !.currentStep = ev.name])
           [] ev.type \in {"TaskStateExited", "WaitStateExited"} ->
                StepScan(events, steps, i + 1,
                         IF ev.name # "" /\ ~Includes(acc.completedSteps, ev.name)
                         THEN [acc EXCEPT !.completedSteps = Append(@, ev.name)]
                         ELSE acc)
           [] ev.type = "ExecutionSucceeded" ->
                [currentStep |-> steps[Len(steps)],
                 currentStepName |-> DisplayName(steps[Len(steps)]),
                 stepNumber |-> Len(steps), totalSteps |-> Len(steps),
                 completedSteps |-> steps, progress |-> 100]
           [] OTHER -> StepScan(events, steps, i + 1, acc)

getStepInfoFromHistory(events, isTerminate) ==
    LET steps == IF isTerminate THEN TERMINATE_STEPS ELSE DEPLOY_STEPS IN
    StepScan(events, steps, 1,
             [currentStep |-> steps[1], currentStepName |-> DisplayName(steps[1]),
              stepNumber |-> 1, totalSteps |-> Len(steps), completedSteps |-> <<>>,
              progress |-> 0])

TaskFailures == {"TaskFailed", "LambdaFunctionFailed"}

\* null
NoDetails == [errorStep |-> "", errorType |-> "", errorMessage |-> ""]
Cause(error) == IF error = "" THEN "" ELSE "cause of " \o error

\* The look-ahead of getErrorDetails from a TaskStateEntered event at i.
LookAhead(events, i) ==
    {j \in (i + 1)..(i + 4) : j <= Len(events) /\ events[j].type \in TaskFailures}

Min(S) == CHOOSE x \in S : \A y \in S : x <= y

RECURSIVE ErrScan(_, _)
\* The backward loop of getErrorDetails from event i down.
ErrScan(events, i) ==
    IF i < 1 THEN NoDetails
    ELSE LET ev == events[i] IN
         CASE ev.type \in TaskFailures ->
                [errorStep |-> "Unknown", errorType |-> OrElse(ev.error, "TaskFailed"),
                 errorMessage |-> OrElse(Cause(ev.error), "Task execution failed")]
           [] ev.type = "ExecutionFailed" ->
                [errorStep |-> "Execution", errorType |-> OrElse(ev.error, "ExecutionFailed"),
                 errorMessage |-> OrElse(Cause(ev.error), "Execution failed")]
           [] ev.type = "TaskStateEntered" /\ LookAhead(events, i) # {} ->
                LET f == events[Min(LookAhead(events, i))] IN
                [errorStep |-> OrElse(ev.name, "Unknown"),
                 errorType |-> OrElse(f.error, "TaskFailed"),
                 errorMessage |-> OrElse(Cause(f.error), "Task execution failed")]
           [] OTHER -> ErrScan(events, i - 1)

getErrorDetails(events) == ErrScan(events, Len(events))

\* Status values of DescribeExecution, and the handler's name for a missing one.
ExecutionStatuses == {"RUNNING", "SUCCEEDED", "FAILED", "TIMED_OUT", "ABORTED",
                      "PENDING_REDRIVE"}

\* What the registry query of the request finds: no item of the user, an item
\* without executionArn, an item with one.
RegistryCases == {"none", "noArn", "arn"}

\* The switch without its default branch falling to UNKNOWN.
StatusSwitchNoDefault(status) ==
    CASE status = "RUNNING" -> "RUNNING"
      [] status = "SUCCEEDED" -> "SUCCEEDED"
      [] OTHER -> "FAILED"

\* The switch of the handler on the execution's status.
StatusSwitch(status) ==
    CASE status = "RUNNING" -> "RUNNING"
      [] status = "SUCCEEDED" -> "SUCCEEDED"
      [] status \in {"FAILED", "TIMED_OUT", "ABORTED"} -> "FAILED"
      [] OTHER -> "UNKNOWN"

NotFoundResponse ==
    [statusCode |-> 404, status |-> "NOT_FOUND", error |-> "NotFound", message |-> "",
     errorStep |-> "", completed |-> -1, progress |-> -1]

\* handleDeploymentStatus for a request with a userId.
\*   known: DescribeExecution finds the execution (it throws ExecutionDoesNotExist otherwise);
\*   historyOk: GetExecutionHistory answers (its failure is caught and logged);
\*   exec: the execution as DescribeExecution returns it.
handleDeploymentStatus(reg, known, historyOk, exec) ==
    CASE reg \in {"none", "noArn"} -> NotFoundResponse
      [] ~known ->
            [statusCode |-> 500, status |-> "FAILED", error |-> "ExecutionDoesNotExist",
             message |-> "Execution Does Not Exist", errorStep |-> "", completed |-> -1,
             progress |-> -1]
      [] OTHER ->
            LET isTerminate == IncludesTerminate(exec.arn)
                stepInfo == getStepInfoFromHistory(exec.history, isTerminate)
                branch == StatusSwitch(exec.status)
                errorDetails == IF historyOk /\ branch = "FAILED"
                                THEN getErrorDetails(exec.history) ELSE NoDetails
                completed == IF historyOk THEN Len(stepInfo.completedSteps) ELSE -1
            IN  CASE branch = "RUNNING" ->
                       [statusCode |-> 200, status |-> "RUNNING", error |-> "",
                        message |-> "", errorStep |-> "", completed |-> completed,
                        progress |-> IF historyOk THEN stepInfo.progress ELSE -1]
                  [] branch = "SUCCEEDED" ->
                       [statusCode |-> 200, status |-> "SUCCEEDED", error |-> "",
                        message |-> "", errorStep |-> "", completed |-> completed,
                        progress |-> 100]
                  [] branch = "FAILED" ->
                       [statusCode |-> 200, status |-> "FAILED",
                        error |-> OrElse(errorDetails.errorType,
                                         OrElse(exec.error, "DeploymentFailed")),
                        message |-> OrElse(errorDetails.errorMessage,
                                           OrElse(Cause(exec.error), "Deployment failed")),
                        errorStep |-> errorDetails.errorStep, completed |-> completed,
                        progress |-> IF historyOk THEN stepInfo.progress ELSE -1]
                  [] OTHER ->
                       [statusCode |-> 200, status |-> "UNKNOWN", error |-> "",
                        message |-> "", errorStep |-> "", completed |-> -1,
                        progress |-> -1]

\* ------------------------------------------------- the orchestrator's history
\* One execution; sfn.idx is the state of the workflow it is at, sfn.phase
\* whether that state was entered, is running, or the execution is ending.

Steps == WorkflowSteps(sfn.workflow)
StepName == Steps[sfn.idx]
Running == sfn.status = "RUNNING" /\ sfn.phase \in {"enter", "inside", "failing", "succeeding"}

\* The execution as DescribeExecution and GetExecutionHistory show it.
Execution ==
    [arn |-> ExecutionArn(sfn.workflow, sfn.userId), status |-> sfn.status,
     error |-> sfn.error, history |-> sfn.history]

CompletedCount(exec) ==
    Len(getStepInfoFromHistory(exec.history, IncludesTerminate(exec.arn)).completedSteps)
TotalSteps(exec) ==
    getStepInfoFromHistory(exec.history, IncludesTerminate(exec.arn)).totalSteps

Advance(events, idx, phase, status, error) ==
    /\ sfn' = [sfn EXCEPT !.history = @ \o events, !.idx = idx, !.phase = phase,
                          !.status = status, !.error = error]
    /\ last' = [op |-> "advance", before |-> CompletedCount(Execution)]
    /\ UNCHANGED <<lifecycleVars, ec2Vars, wait, hook, dcv>>

\* The execution enters its next state.
EnterState ==
    /\ Running /\ sfn.phase = "enter"
    /\ Advance(<<Event(StateType(StepName) \o "StateEntered", StepName, "")>>,
               sfn.idx, "inside", "RUNNING", "")

\* The state finishes and the execution moves on; a Succeed state ends it.
ExitState ==
    /\ Running /\ sfn.phase = "inside"
    /\ Advance(<<Event(StateType(StepName) \o "StateExited", StepName, "")>>,
               IF sfn.idx < Len(Steps) THEN sfn.idx + 1 ELSE sfn.idx,
               IF StateType(StepName) = "Succeed" THEN "succeeding" ELSE "enter",
               "RUNNING", "")

ExecutionSucceeds ==
    /\ Running /\ sfn.phase = "succeeding"
    /\ Advance(<<Event("ExecutionSucceeded", "", "")>>, sfn.idx, "ended", "SUCCEEDED", "")

\* A task of the execution fails: the task's failure event is written first.
TaskFails ==
    /\ Running /\ sfn.phase = "inside" /\ StateType(StepName) = "Task"
    /\ \E type \in TaskFailures, error \in {"", "Error"} :
         Advance(<<Event(type, "", error)>>, sfn.idx, "failing", "RUNNING", error)

\* The Choice after the check routes an invalid request to the Fail state.
ChoiceFails ==
    /\ Running /\ sfn.phase = "inside" /\ StateType(StepName) = "Choice"
    /\ Advance(<<Event("ChoiceStateExited", StepName, ""),
                 Event("FailStateEntered", "InvalidStream", "")>>,
               sfn.idx, "failing", "RUNNING", "InvalidStream")

ExecutionFails ==
    /\ Running /\ sfn.phase = "failing"
    /\ Advance(<<Event("ExecutionFailed", "", sfn.error)>>, sfn.idx, "ended", "FAILED",
               sfn.error)

\* The execution is stopped or runs out of time, in whatever state it is.
ExecutionStops ==
    /\ Running
    /\ \E how \in {"Aborted", "TimedOut"} :
         Advance(<<Event("Execution" \o how, "", "")>>, sfn.idx, "ended",
                 IF how = "Aborted" THEN "ABORTED" ELSE "TIMED_OUT", "")

\* An operator redrives the failed execution: it is pending until it runs again.
ExecutionRedriven ==
    /\ sfn.status = "FAILED" /\ sfn.phase = "ended"
    /\ Advance(<<Event("ExecutionRedriven", "", "")>>, sfn.idx, "redriven",
               "PENDING_REDRIVE", "")

\* GET /deployment-status?userId=...
StatusRequest ==
    /\ sfn.phase # "idle"
    /\ \E reg \in RegistryCases, known \in BOOLEAN, historyOk \in BOOLEAN :
         last' = [op |-> "status", reg |-> reg, known |-> known, historyOk |-> historyOk,
                  response |-> handleDeploymentStatus(reg, known, historyOk, Execution)]
    /\ UNCHANGED <<lifecycleVars, ec2Vars, auxVars>>

LifecycleIdle ==
    /\ instances = [k \in Keys |-> NoRec]
    /\ streamSeq = <<>>
    /\ ec2 = [e \in Execs |-> "none"]
    /\ dep = [e \in Execs |-> IdleDeploy]
    /\ nextD = 0
    /\ ter = [t \in Terms |-> IdleTerminate]
    /\ nextT = 0
    /\ faults = 0

EC2Idle ==
    /\ backend = "running"
    /\ item = "absent"
    /\ calls = 0
    /\ sent = 0

InitStatus ==
    /\ LifecycleIdle
    /\ EC2Idle
    /\ last = NoLast
    /\ \E w \in WorkflowNames, u \in StatusUsers :
         sfn = [workflow |-> w, userId |-> u, idx |-> 1, phase |-> "enter",
                status |-> "RUNNING", history |-> <<Event("ExecutionStarted", "", "")>>,
                error |-> ""]
    /\ wait = IdleWait
    /\ hook = IdleHook
    /\ dcv = IdleDcv

NextStatus ==
    \/ EnterState
    \/ ExitState
    \/ ExecutionSucceeds
    \/ TaskFails
    \/ ChoiceFails
    \/ ExecutionFails
    \/ ExecutionStops
    \/ ExecutionRedriven
    \/ StatusRequest

SpecStatus == InitStatus /\ [][NextStatus]_vars


\* ------------------------------------------------------------- wait loops
\* SpecWait runs one call of waitForCommand or of waitForSSMCommand. Time is
\* counted in whole poll intervals: a sleep takes one; a poll takes some time,
\* less than an interval (latency 0) or an interval more (latency 1), so that
\* after a poll the clock is always past the whole intervals counted.

\* The longest deadline of a wait, in poll intervals.
MaxWaitIntervals == 3
PollLatencies == {0, 1}

\* What GetCommandInvocation answers: a status, the error of an invocation
\* that is not visible yet, or another error.
TerminalStatuses == {"Success", "Failed", "Cancelled", "TimedOut"}
PendingStatuses == {"Pending", "InProgress"}
PollResponses == TerminalStatuses \cup PendingStatuses \cup
                 {"InvocationDoesNotExist", "ThrottlingException"}
StderrContents == {"", "stderr"}

Returned(success, error) == [kind |-> "returned", success |-> success, error |-> error]
Thrown(message) == [kind |-> "thrown", message |-> message]

\* err.name === "InvocationDoesNotExist"
IsNotYetVisibleNever(resp) == FALSE
IsNotYetVisible(resp) == resp = "InvocationDoesNotExist"

\* Date.now() - startTime < timeoutMs
WithinDeadlineAlways(w) == TRUE
WithinDeadline(w) == w.elapsed < w.timeout

\* One pass of the while loop of waitForCommand.
waitForCommandPass(w, resp, stderr, latency) ==
    IF ~WithinDeadline(w)
    THEN [w EXCEPT !.phase = "done", !.resp = "none",
                   !.result = Returned(FALSE, "Command timed out")]
    ELSE LET polled == [w EXCEPT !.polls = @ + 1, !.resp = resp] IN
         CASE resp = "Success" ->
                [polled EXCEPT !.phase = "done", !.result = Returned(TRUE, stderr)]
           [] resp \in {"Failed", "Cancelled", "TimedOut"} ->
                [polled EXCEPT !.phase = "done",
                               !.result = Returned(FALSE, OrElse(stderr, resp))]
           [] resp \in PendingStatuses ->
                [polled EXCEPT !.elapsed = @ + latency + 1]
           [] IsNotYetVisible(resp) ->
                [polled EXCEPT !.elapsed = @ + latency + 1]
           [] OTHER ->
                [polled EXCEPT !.phase = "done", !.result = Thrown(resp)]

\* SSMWrapper.getCommandStatus: the status of the invocation; an invocation
\* that is not visible yet counts as pending, any other error is thrown.
getCommandStatus(resp) ==
    CASE resp = "InvocationDoesNotExist" -> [thrown |-> FALSE, status |-> "Pending"]
      [] resp \in TerminalStatuses \cup PendingStatuses -> [thrown |-> FALSE, status |-> resp]
      [] OTHER -> [thrown |-> TRUE, status |-> resp]

\* One pass of the while loop of waitForSSMCommand.
waitForSSMCommandPass(w, resp, latency) ==
    LET polled == [w EXCEPT !.polls = @ + 1, !.resp = resp]
        got == getCommandStatus(resp)
    IN  CASE got.thrown ->
               [polled EXCEPT !.phase = "done", !.result = Thrown(got.status)]
          [] got.status = "Success" ->
               [polled EXCEPT !.phase = "done", !.result = Returned(TRUE, "")]
          [] got.status \in {"Failed", "Cancelled", "TimedOut"} ->
               [polled EXCEPT !.phase = "done",
                              !.result = Thrown("SSM command failed with status: " \o got.status)]
          [] w.elapsed + latency >= w.timeout ->
               [polled EXCEPT !.phase = "done", !.elapsed = @ + latency,
                              !.result = Thrown("Timeout waiting for SSM command")]
          [] OTHER ->
               [polled EXCEPT !.elapsed = @ + latency + 1]

\* A command was sent and a wait for it begins.
StartWait ==
    /\ wait.phase = "idle"
    /\ \E loop \in {"waitForCommand", "waitForSSMCommand"}, timeout \in 1..MaxWaitIntervals :
         wait' = [IdleWait EXCEPT !.loop = loop, !.phase = "running", !.timeout = timeout]
    /\ UNCHANGED <<lifecycleVars, ec2Vars, last, sfn, hook, dcv>>

waitForCommand ==
    /\ wait.phase = "running" /\ wait.loop = "waitForCommand"
    /\ \E resp \in PollResponses, stderr \in StderrContents, latency \in PollLatencies :
         wait' = waitForCommandPass(wait, resp, stderr, latency)
    /\ UNCHANGED <<lifecycleVars, ec2Vars, last, sfn, hook, dcv>>

waitForSSMCommand ==
    /\ wait.phase = "running" /\ wait.loop = "waitForSSMCommand"
    /\ \E resp \in PollResponses, latency \in PollLatencies :
         wait' = waitForSSMCommandPass(wait, resp, latency)
    /\ UNCHANGED <<lifecycleVars, ec2Vars, last, sfn, hook, dcv>>

InitWait ==
    /\ LifecycleIdle
    /\ EC2Idle
    /\ last = NoLast
    /\ sfn = IdleSfn
    /\ wait = IdleWait
    /\ hook = IdleHook
    /\ dcv = IdleDcv

NextWait ==
    \/ StartWait
    \/ waitForCommand
    \/ waitForSSMCommand

SpecWait == InitWait /\ [][NextWait]_vars


\* ------------------------------------------------------ client status polling
\* SpecPoll runs the useDeploymentStatus hook of one page against the status
\* endpoint. hook.inflight holds the requests under way, each with the polling
\* session (call of startPolling) that sent it: r is "request" until the
\* server answers, then the answer. hook.terminal remembers that a terminal
\* status was received since polling was last started. hook.cancelled says
\* that stopPolling has returned since polling was last started, and
\* hook.onSuccess and hook.onError count the calls of the two callbacks made
\* for requests of the current session.

\* The most status requests the hook sends, and the most it has under way.
MaxPolls == 4
MaxInFlight == 2

\* What a request comes back with: the status of a 2xx response, or "error"
\* for a response that is not ok or a failed fetch (request() throws).
OkStatuses == {"RUNNING", "SUCCEEDED", "FAILED", "UNKNOWN"}
ServerStates == {"RUNNING", "SUCCEEDED", "FAILED"}

\* result.status === "SUCCEEDED" / result.status === "FAILED"
StopsPollingOnSuccess(status) == status = "SUCCEEDED"
StopsPolling(status) == status \in {"SUCCEEDED", "FAILED"}

CanSend == hook.sent < MaxPolls /\ Len(hook.inflight) < MaxInFlight

\* apiClient.getDeploymentStatus is called: a request leaves.
Sending(h) == [h EXCEPT !.inflight = Append(@, [s |-> h.session, r |-> "request"]),
                        !.sent = @ + 1]

RemoveAt(seq, i) == SubSeq(seq, 1, i - 1) \o SubSeq(seq, i + 1, Len(seq))

HookDoes(l, h) ==
    /\ hook' = h
    /\ last' = l
    /\ UNCHANGED <<lifecycleVars, ec2Vars, sfn, wait, dcv>>

HookStep(op, h) == HookDoes([op |-> op], h)

\* The callbacks checkStatus calls for a result: onStatusChange for every
\* response, onSuccess for SUCCEEDED, onError for FAILED; none for a request
\* that threw or when the component is no longer mounted.
Callbacks(mounted, result) ==
    IF ~mounted \/ result = "error" THEN {}
    ELSE {"onStatusChange"} \cup (IF result = "SUCCEEDED" THEN {"onSuccess"} ELSE {})
                            \cup (IF result = "FAILED" THEN {"onError"} ELSE {})

\* The callbacks are counted for the session that sent the request.
Counted(h, s, called) ==
    IF s # h.session THEN h
    ELSE [h EXCEPT !.onSuccess = IF "onSuccess" \in called THEN @ + 1 ELSE @,
                   !.onError = IF "onError" \in called THEN @ + 1 ELSE @]

\* The component using the hook is mounted.
Mount ==
    /\ ~hook.mounted /\ hook.sent = 0
    /\ HookStep("mount", [hook EXCEPT !.mounted = TRUE])

startPolling ==
    /\ hook.mounted /\ CanSend
    /\ HookStep("startPolling",
                Sending([hook EXCEPT !.interval = TRUE, !.isPolling = TRUE,
                                     !.terminal = FALSE, !.session = @ + 1,
                                     !.cancelled = FALSE, !.onSuccess = 0,
                                     !.onError = 0]))

\* The interval fires and called checkStatus.
IntervalFires ==
    /\ hook.interval /\ CanSend
    /\ HookStep("interval", Sending(hook))

stopPolling ==
    /\ hook.mounted
    /\ HookStep("stopPolling", [hook EXCEPT !.interval = FALSE, !.isPolling = FALSE,
                                            !.cancelled = TRUE])

\* The server answers one of the requests from the execution's status, or the
\* request fails.
ServerAnswers ==
    /\ \E i \in 1..Len(hook.inflight), ok \in BOOLEAN :
         /\ hook.inflight[i].r = "request"
         /\ HookStep("answer",
                     [hook EXCEPT !.inflight[i].r = IF ok THEN hook.server ELSE "error"])

\* checkStatus continues after its await with the answer of a request.
checkStatus ==
    /\ \E i \in 1..Len(hook.inflight) :
         LET result == hook.inflight[i].r
             called == Callbacks(hook.mounted, result)
             rest == Counted([hook EXCEPT !.inflight = RemoveAt(@, i)],
                             hook.inflight[i].s, called)
         IN  /\ result # "request"
             /\ HookDoes([op |-> "checkStatus", called |-> called,
                          cancelled |-> hook.cancelled, s |-> hook.inflight[i].s],
                   IF ~hook.mounted THEN rest
                   ELSE IF result = "error" THEN rest
                   ELSE IF StopsPolling(result)
                   THEN [rest EXCEPT !.status = result,
                                     !.terminal = result \in {"SUCCEEDED", "FAILED"},
                                     !.interval = FALSE,
                                     !.isPolling = IF hook.interval THEN FALSE ELSE @]
                   ELSE [rest EXCEPT !.status = result,
                                     !.terminal = @ \/ result \in {"SUCCEEDED", "FAILED"}])

\* The component unmounts: the cleanup clears the interval.
Unmount ==
    /\ hook.mounted
    /\ HookStep("unmount", [hook EXCEPT !.mounted = FALSE, !.interval = FALSE])

\* The execution the user polls for ends.
ExecutionEnds ==
    /\ hook.server = "RUNNING"
    /\ \E st \in {"SUCCEEDED", "FAILED"} :
         HookStep("server", [hook EXCEPT !.server = st])

InitPoll ==
    /\ LifecycleIdle
    /\ EC2Idle
    /\ last = NoLast
    /\ sfn = IdleSfn
    /\ wait = IdleWait
    /\ hook = IdleHook
    /\ dcv = IdleDcv

NextPoll ==
    \/ Mount
    \/ startPolling
    \/ IntervalFires
    \/ stopPolling
    \/ ServerAnswers
    \/ checkStatus
    \/ Unmount
    \/ ExecutionEnds

SpecPoll == InitPoll /\ [][NextPoll]_vars


\* ------------------------------------------------------- terminate API handler
\* SpecApi sends requests to POST /terminateInstance, each with its body, the
\* handler's configuration, and what StartExecution and the registry update do.

\* The instanceId the requests name, and the registry key it is.
ApiTargets == {"i-1"}
KeyOf(instanceId) == RealId(1)

\* A field of the parsed body is not there, is there but empty, or has a value.
NoValues == {"absent", "empty"}
\* event.body: JSON that does not parse, or an object with the two fields.
RequestBodies ==
    {[malformed |-> TRUE, userId |-> "absent", instanceId |-> "absent"]} \cup
    {[malformed |-> FALSE, userId |-> u, instanceId |-> k] :
        u \in NoValues \cup Users, k \in NoValues \cup ApiTargets}
\* TERMINATE_WORKFLOW_ARN and RUNNING_INSTANCES_TABLE are set or not.
Configurations == [workflowArn : BOOLEAN, table : BOOLEAN]
\* StartExecution: accepted, accepted without an ARN in the output, or rejected.
StartReplies == {"ok", "noArn", "ExecutionAlreadyExists", "StateMachineDoesNotExist",
                 "ServiceError"}
\* !userId, !instanceId, !TERMINATE_WORKFLOW_ARN
FalsyNever(v) == FALSE
Falsy(v) == v \in NoValues

createResponse(statusCode, body) == [statusCode |-> statusCode, body |-> body]

\* The status code after the registry update, which is in its own try/catch.
StatusAfterUpdateStrict(updOk) == IF updOk THEN 200 ELSE 500
StatusAfterUpdate(updOk) == 200

\* handleTerminateInstance: the response, whether StartExecution was sent, and
\* whether the update of the registry was sent.
terminateInstanceResponse(body, cfg, start, updOk) ==
    CASE body.malformed ->
            [response |-> createResponse(500, [status |-> "error", message |-> "SyntaxError"]),
             startSent |-> FALSE, updateSent |-> FALSE]
      [] Falsy(body.userId) ->
            [response |-> createResponse(400, [status |-> "error",
                                               message |-> "User ID is required"]),
             startSent |-> FALSE, updateSent |-> FALSE]
      [] Falsy(body.instanceId) ->
            [response |-> createResponse(400, [status |-> "error",
                                               message |-> "Instance ID is required"]),
             startSent |-> FALSE, updateSent |-> FALSE]
      [] ~cfg.workflowArn ->
            [response |-> createResponse(500,
                 [status |-> "error",
                  message |-> "Internal server error: Step Function configuration missing"]),
             startSent |-> FALSE, updateSent |-> FALSE]
      [] ~cfg.table ->
            [response |-> createResponse(500,
                 [status |-> "error",
                  message |-> "Internal server error: Database configuration missing"]),
             startSent |-> FALSE, updateSent |-> FALSE]
      [] start = "ExecutionAlreadyExists" ->
            [response |-> createResponse(409,
                 [status |-> "error",
                  message |-> "Termination workflow is already in progress"]),
             startSent |-> TRUE, updateSent |-> FALSE]
      [] start = "StateMachineDoesNotExist" ->
            [response |-> createResponse(500,
                 [status |-> "error",
                  message |-> "Internal server error: Workflow configuration error"]),
             startSent |-> TRUE, updateSent |-> FALSE]
      [] start = "ServiceError" ->
            [response |-> createResponse(500,
                 [status |-> "error", message |-> "Failed to start termination workflow",
                  error |-> "Unknown error"]),
             startSent |-> TRUE, updateSent |-> FALSE]
      [] start = "noArn" ->
            [response |-> createResponse(500,
                 [status |-> "error", message |-> "Failed to start termination workflow"]),
             startSent |-> TRUE, updateSent |-> FALSE]
      [] OTHER ->
            [response |-> createResponse(StatusAfterUpdate(updOk),
                 [status |-> IF StatusAfterUpdate(updOk) = 200 THEN "success" ELSE "error",
                  message |-> "Termination workflow started successfully"]),
             startSent |-> TRUE, updateSent |-> TRUE]

\* The handler answers before it calls StartExecution.
RefusedAtOnce(body, cfg) ==
    ~terminateInstanceResponse(body, cfg, "ok", TRUE).startSent

\* One request to the handler with the reply of StartExecution ("none" when it
\* is not called) and the outcome of the registry update (when it is sent): the
\* orchestrator starts the execution it accepts, the registry takes the update
\* unless it fails.
TerminateCall(body, cfg, start, updOk) ==
    LET out == terminateInstanceResponse(body, cfg, start, updOk)
        accepted == out.startSent /\ start \in {"ok", "noArn"}
        t == nextT + 1
    IN  /\ nextD + nextT < MaxExecs
        /\ nextT' = IF accepted THEN t ELSE nextT
        /\ ter' = IF accepted
                  THEN Except(ter, t, [IdleTerminate EXCEPT
                                           !.user = body.userId, !.pc = "CheckRunningStreams",
                                           !.wasTerminated = AlreadyTerminated(body.userId)])
                  ELSE ter
        /\ instances' = IF out.updateSent /\ updOk
                        THEN UpdateInstance(instances, KeyOf(body.instanceId), "terminating",
                                            <<"T", t>>)
                        ELSE instances
        /\ last' = [op |-> "terminateInstance", body |-> body, cfg |-> cfg,
                    start |-> start, updOk |-> updOk, out |-> out,
                    arn |-> IF accepted /\ start = "ok" THEN <<"T", t>> ELSE NoArn,
                    started |-> nextT' - nextT,
                    wrote |-> instances' # instances]
        /\ UNCHANGED <<streamSeq, ec2, dep, nextD, faults, ec2Vars, auxVars>>

TerminateRequest ==
    \E body \in RequestBodies, cfg \in Configurations :
        IF RefusedAtOnce(body, cfg)
        THEN TerminateCall(body, cfg, "none", TRUE)
        ELSE \E start \in StartReplies :
                IF start = "ok"
                THEN \E updOk \in BOOLEAN : TerminateCall(body, cfg, start, updOk)
                ELSE TerminateCall(body, cfg, start, TRUE)

InitApi ==
    /\ LifecycleIdle
    /\ EC2Idle
    /\ last = NoLast
    /\ sfn = IdleSfn
    /\ wait = IdleWait
    /\ hook = IdleHook
    /\ dcv = IdleDcv

NextApi == TerminateRequest

SpecApi == InitApi /\ [][NextApi]_vars


\* A wait that is started runs its passes one after the other.
SpecWaitFair == SpecWait /\ WF_vars(NextWait)

\* ------------------------------------------------- remote-desktop configuration
\* SpecDcv calls the configure-dcv-instance handler and DCVWrapper.getDCVSession
\* for one instance. dcv.configured is the instance's dcvConfigured tag.

\* The most calls made to the two procedures.
MaxDcvCalls == 2

\* runCommand: it throws (the send fails or the wait throws), or it returns
\* with success and with or without the text the handler looks for in the output.
ConfigureResult(passwordSet, sslConfigured, message, attempted) ==
    [thrown |-> FALSE, success |-> passwordSet /\ sslConfigured, passwordSet |-> passwordSet,
     sslConfigured |-> sslConfigured, message |-> message, attempted |-> attempted]

\* The catch of the handler.
ConfigureCaught(passwordSet, sslConfigured, attempted) ==
    [thrown |-> FALSE, success |-> FALSE, passwordSet |-> passwordSet,
     sslConfigured |-> sslConfigured, message |-> "err.message", attempted |-> attempted]

ConfigureMessage(passwordSet, sslConfigured) ==
    <<"Password", IF passwordSet THEN "OK" ELSE "FAILED",
      "SSL", IF sslConfigured THEN "OK" ELSE "FAILED">>

\* A step whose command throws ends the handler in its catch.
StepThrew(r) == r.thrown

\* configure-dcv-instance handler: r[1] password, r[2] browser security,
\* r[3] certificate client, r[4] certificate request, r[5] copy and restart.
\* attempted is the number of commands it ran.
configureDcvInstance(fieldsOk, r) ==
    IF ~fieldsOk
    THEN [thrown |-> TRUE, success |-> FALSE, passwordSet |-> FALSE, sslConfigured |-> FALSE,
          message |-> "Missing required fields", attempted |-> 0]
    ELSE LET passwordSet == ~r[1].thrown /\ r[1].success IN
         CASE StepThrew(r[1]) -> ConfigureCaught(FALSE, FALSE, 1)
           [] StepThrew(r[2]) -> ConfigureCaught(passwordSet, FALSE, 2)
           [] StepThrew(r[3]) -> ConfigureCaught(passwordSet, FALSE, 3)
           [] StepThrew(r[4]) -> ConfigureCaught(passwordSet, FALSE, 4)
           [] ~r[4].marked ->
                ConfigureResult(passwordSet, FALSE, ConfigureMessage(passwordSet, FALSE), 4)
           [] StepThrew(r[5]) -> ConfigureCaught(passwordSet, FALSE, 5)
           [] OTHER ->
                ConfigureResult(passwordSet, r[5].marked,
                                ConfigureMessage(passwordSet, r[5].marked), 5)

\* The results that make a difference at each step: the handler reads success
\* of the password command only, and the output of the last two only.
Threw == [thrown |-> TRUE, success |-> FALSE, marked |-> FALSE]
Ran(success, marked) == [thrown |-> FALSE, success |-> success, marked |-> marked]
StepResults ==
    {<<r1, r2, r3, r4, r5>> :
        r1 \in {Threw, Ran(TRUE, FALSE), Ran(FALSE, FALSE)},
        r2 \in {Threw, Ran(TRUE, FALSE)},
        r3 \in {Threw, Ran(FALSE, FALSE)},
        r4 \in {Threw, Ran(TRUE, TRUE), Ran(FALSE, FALSE)},
        r5 \in {Threw, Ran(TRUE, TRUE), Ran(TRUE, FALSE)}}

ConfigureDcvCall ==
    /\ dcv.calls < MaxDcvCalls
    /\ \E fieldsOk \in BOOLEAN, r \in StepResults :
         LET out == configureDcvInstance(fieldsOk, r) IN
         /\ last' = [op |-> "configureDcvInstance", fieldsOk |-> fieldsOk,
                     results |-> SubSeq(r, 1, out.attempted), out |-> out]
         /\ dcv' = [dcv EXCEPT !.calls = @ + 1]
    /\ UNCHANGED <<lifecycleVars, ec2Vars, sfn, wait, hook>>

\* How the install command goes: runInstall throws, or the command is sent and
\* waitForSSMCommand sees it end with a status or passes its deadline.
InstallOutcomes == {"sendThrew", "Success", "Failed", "Cancelled", "TimedOut", "deadline"}
\* How runCreateSession and its wait go, and then getStreamingUrl.
SessionOutcomes == {"Success", "Failed", "noPublicIp"}

\* waitForSSMCommand returns, and does not throw, for this outcome.
WaitReturnsAlways(outcome) == outcome # "sendThrew"
WaitReturns(outcome) == outcome = "Success"

\* DCVWrapper.installDCV on the instance: whether the tag is set afterwards
\* and whether it throws.
installDCV(install, tagWriteOk) ==
    [sent |-> install # "sendThrew",
     tagged |-> WaitReturns(install) /\ tagWriteOk,
     thrown |-> ~(WaitReturns(install) /\ tagWriteOk)]

\* DCVWrapper.getDCVSession.
getDCVSession(describeOk, configured, install, tagWriteOk, session) ==
    IF ~describeOk
    THEN [thrown |-> TRUE, url |-> FALSE, installRan |-> FALSE, tagged |-> FALSE,
          sessionCreated |-> FALSE]
    ELSE LET inst == IF configured
                     THEN [sent |-> FALSE, tagged |-> FALSE, thrown |-> FALSE]
                     ELSE installDCV(install, tagWriteOk)
         IN  IF inst.thrown
             THEN [thrown |-> TRUE, url |-> FALSE, installRan |-> inst.sent,
                   tagged |-> inst.tagged, sessionCreated |-> FALSE]
             ELSE [thrown |-> session # "Success", url |-> session = "Success",
                   installRan |-> inst.sent, tagged |-> inst.tagged,
                   sessionCreated |-> session \in {"Success", "noPublicIp"}]

GetDCVSessionCall ==
    /\ dcv.calls < MaxDcvCalls
    /\ \E describeOk \in BOOLEAN, install \in InstallOutcomes, tagWriteOk \in BOOLEAN,
          session \in SessionOutcomes :
         LET out == getDCVSession(describeOk, dcv.configured, install, tagWriteOk, session) IN
         /\ dcv' = [dcv EXCEPT !.calls = @ + 1,
                               !.configured = @ \/ out.tagged,
                               !.installs = IF out.installRan THEN @ + 1 ELSE @,
                               !.sessions = IF out.sessionCreated THEN @ + 1 ELSE @]
         /\ last' = [op |-> "getDCVSession", describeOk |-> describeOk,
                     configured |-> dcv.configured, install |-> install,
                     tagWriteOk |-> tagWriteOk, session |-> session, out |-> out]
    /\ UNCHANGED <<lifecycleVars, ec2Vars, sfn, wait, hook>>

\* The instance comes from an image with or without the server installed.
InitDcv ==
    /\ LifecycleIdle
    /\ EC2Idle
    /\ last = NoLast
    /\ sfn = IdleSfn
    /\ wait = IdleWait
    /\ hook = IdleHook
    /\ dcv \in {[IdleDcv EXCEPT !.configured = c] : c \in BOOLEAN}

NextDcv ==
    \/ ConfigureDcvCall
    \/ GetDCVSessionCall

SpecDcv == InitDcv /\ [][NextDcv]_vars

\* ------------------------------------------------------------- properties

\* C1: in every reachable state the RunningInstances registry holds at most
\* one item per userId whose status is not terminated.
C1_AtMostOneNonTerminatedPerUser ==
    \A u \in Users : Cardinality(NonTerminatedOfUser(u)) <= 1

\* Two deploy requests of one user, no failure anywhere: both placeholder
\* items are in the registry.
C1_TwoDeployingRecords ==
    \E u \in Users :
        /\ faults = 0
        /\ Cardinality({k \in NonTerminatedOfUser(u) : instances[k].status = "deploying"}) = 2

\* C2: a deploy execution whose CheckRunningStreams step ran while the user
\* had a RunningStreams item is failed with StreamAlreadyActive and has
\* created no instance.
C2_ActiveStreamFailsDeploy ==
    \A e \in Execs :
        dep[e].activeAtCheck =>
            /\ dep[e].pc = "Failed"
            /\ dep[e].error = "StreamAlreadyActive"
            /\ ec2[e] = "none"

C2_DeployRefused ==
    \E e \in Execs : dep[e].activeAtCheck /\ dep[e].pc = "Failed"

\* C3: when the UpdateRunningStreams step of deploy execution e has completed,
\* RunningStreams holds exactly one item for the instance of e and
\* RunningInstances holds no placeholder item of e.
C3_PersistReplacesOwnPlaceholder ==
    last.op = "UpdateRunningStreams" =>
        /\ Cardinality({i \in 1..Len(streamSeq) : streamSeq[i] = last.e}) = 1
        /\ instances[PlaceholderId(last.e)] = NoRec

\* The step completed without any failure and the placeholder of its own
\* execution is still in the registry.
C3_OwnPlaceholderLeft ==
    /\ last.op = "UpdateRunningStreams"
    /\ faults = 0
    /\ instances[PlaceholderId(last.e)] # NoRec

\* C4: a terminate execution started when every RunningInstances item of the
\* user was terminated ends in TerminationSuccess and has sent no
\* TerminateInstances command.
C4_SecondTerminateSucceeds ==
    \A t \in Terms :
        (ter[t].wasTerminated /\ ter[t].pc \in {"Failed", "TerminationSuccess"}) =>
            /\ ter[t].pc = "TerminationSuccess"
            /\ ~ter[t].sentCmd

\* The second run, with no failure anywhere, ends failed.
C4_SecondTerminateFails ==
    \E t \in Terms :
        /\ ter[t].wasTerminated
        /\ faults = 0
        /\ ter[t].pc = "Failed"
        /\ ter[t].error = "InvalidStreamError"
        /\ ~ter[t].sentCmd

\* The call in last was made on an instance the backend described as being in
\* one of the states of S.
DescribedIn(S) ==
    /\ last.op \in {"canTerminate", "terminateInstance"}
    /\ last.state \in S
    /\ last.reply.kind = "instance"

\* C5: on an instance described as shutting-down or terminated, canTerminate
\* returns false, and terminateInstance returns state terminated with
\* wasAlreadyTerminated and sends no TerminateInstances, on every call.
C5_NoSecondTerminateCall ==
    DescribedIn({"shutting-down", "terminated"}) =>
        /\ last.op = "canTerminate" => last.result = Value(FALSE)
        /\ last.op = "terminateInstance" =>
            /\ ~last.result.threw
            /\ last.result.wasAlreadyTerminated
            /\ last.result.state = "terminated"
            /\ ~last.result.sentCmd
            /\ sent = last.sentBefore

\* A repeated terminateInstance call on an instance that is shutting down.
C5_RepeatedCall ==
    /\ DescribedIn({"shutting-down", "terminated"})
    /\ last.op = "terminateInstance"
    /\ calls >= 2
    /\ last.result.wasAlreadyTerminated

\* C6: on an instance described as pending, canTerminate throws the pending
\* error, and terminateInstance throws it too and sends no TerminateInstances.
C6_PendingIsRefused ==
    DescribedIn({"pending"}) =>
        /\ last.result.threw
        /\ last.result.msg = MsgPending
        /\ last.op = "terminateInstance" =>
            /\ ~last.result.sentCmd
            /\ sent = last.sentBefore

C6_PendingTerminateCall ==
    /\ DescribedIn({"pending"})
    /\ last.op = "terminateInstance"
    /\ last.result.threw

\* The backend reported the instance as not found to the waitForTermination
\* call in last: the waiter did, or the describe call after it did.
NotFoundReported ==
    /\ last.op = "waitForTermination"
    /\ \/ last.waitReply = MsgBackendNotFound
       \/ last.waitReply = "ok" /\ last.reply \in DescribeReplies("not-found")

\* C7: waitForTermination returns state terminated whenever the backend
\* reported the instance as not found.
C7_NotFoundIsTerminated ==
    NotFoundReported =>
        /\ ~last.result.threw
        /\ last.result.state = "terminated"

\* The waiter ended with the backend's not-found error and the call threw.
C7_NotFoundThrows ==
    /\ NotFoundReported
    /\ last.waitReply = MsgBackendNotFound
    /\ last.result.threw
    /\ last.result.msg = MsgWaitTerminationFailed

\* C8: the terminate step run on an instance whose RunningInstances item is
\* terminated returns success with the already-terminated message and does
\* nothing else.
C8_TerminatedShortCircuits ==
    (last.op = "terminateEc2" /\ last.item = "terminated") =>
        /\ ~last.result.threw
        /\ last.result.success
        /\ last.result.message = MsgAlreadyTerminated
        /\ last.result.effects = {}

\* The step ran on a terminated item, described the instance and wrote the
\* registry again.
C8_TerminatedRunsAgain ==
    /\ last.op = "terminateEc2"
    /\ last.item = "terminated"
    /\ ~last.result.threw
    /\ last.result.message = MsgTerminated
    /\ {"describe", "registryWrite"} \subseteq last.result.effects

\* The terminate step in last tried to detach the volume, the detach failed
\* and the termination succeeded.
DetachFailedOnly ==
    /\ last.op = "terminateEc2"
    /\ last.in.detach \in {"detach-failed", "throws"}
    /\ ~terminateInstance(last.in.d2, last.in.stopWaitOk, last.in.send).threw

\* C9: when the detach fails and the termination succeeds, the step returns
\* success, a detachVolumeState that is neither skipped nor detached, and
\* the terminated message.
C9_DetachFailureIsReported ==
    DetachFailedOnly =>
        /\ ~last.result.threw
        /\ last.result.success
        /\ last.result.detachVolumeState \notin {"skipped", "detached"}
        /\ last.result.message = MsgTerminated

\* detachEBSVolume threw and the result says skipped.
C9_ThrownDetachLooksSkipped ==
    /\ DetachFailedOnly
    /\ last.in.detach = "throws"
    /\ last.result.success
    /\ last.result.detachVolumeState = "skipped"

\* The terminate step in last called terminateInstance and the call threw.
TerminationFailed ==
    /\ last.op = "terminateEc2"
    /\ terminateInstance(last.in.d2, last.in.stopWaitOk, last.in.send).threw

\* C10: when terminateInstance fails, the terminate step throws, never
\* returns success, and leaves the status of the RunningInstances item as
\* it was.
C10_FailedTerminationIsFailure ==
    TerminationFailed =>
        /\ last.result.threw
        /\ ~last.result.success
        /\ "registryWrite" \notin last.result.effects
        /\ item = last.item

\* TerminateInstances was sent for a running instance and failed.
C10_BackendRejects ==
    /\ TerminationFailed
    /\ last.in.send = "error"
    /\ last.result.sentCmd
    /\ last.item = "running"


\* The terminate step in last tried to stop the session and the stop failed.
StopSessionFailed ==
    /\ last.op = "terminateEc2"
    /\ ~last.in.closeOk

\* C11: a failed session stop is returned as stoppedSuccessfully = false, and
\* the terminate step still calls terminateInstance and, when that call
\* succeeds, returns success with dcvStopped = false.
C11_StopFailureDoesNotPropagate ==
    StopSessionFailed =>
        LET term == terminateInstance(last.in.d2, last.in.stopWaitOk, last.in.send) IN
        /\ ~stopDCVSession(last.in.closeOk).stoppedSuccessfully
        /\ last.result.sentCmd = term.sentCmd
        /\ sent = last.sentBefore + (IF term.sentCmd THEN 1 ELSE 0)
        /\ ~term.threw =>
            /\ ~last.result.threw
            /\ last.result.success
            /\ ~last.result.dcvStopped

\* The stop failed, TerminateInstances was sent and accepted, the step succeeded.
C11_TerminatedAfterFailedStop ==
    /\ StopSessionFailed
    /\ last.result.accepted
    /\ last.result.success
    /\ sent = last.sentBefore + 1

\* C12: a deploy execution whose DeployEC2 step failed to create the instance
\* or to see it running is failed, and RunningStreams holds no item of it.
C12_DeployFailureIsTerminal ==
    \A e \in Execs :
        dep[e].deployed \in {"createFailed", "waitFailed"} =>
            /\ dep[e].pc = "Failed"
            /\ \A i \in 1..Len(streamSeq) : streamSeq[i] # e

C12_WaitFailed ==
    \E e \in Execs : dep[e].deployed = "waitFailed" /\ ec2[e] # "none" /\ dep[e].pc = "Failed"


FailureIndexes(h) == {i \in 1..Len(h) : h[i].type \in TaskFailures}
Max(S) == CHOOSE x \in S : \A y \in S : x >= y
LastFailure(h) == h[Max(FailureIndexes(h))]
FailedStep(h) ==
    h[Max({i \in 1..Max(FailureIndexes(h)) : h[i].type = "TaskStateEntered"})].name

\* A status response for an execution that failed, timed out or was aborted,
\* computed with the history at hand.
FailedResponse ==
    /\ last.op = "status" /\ last.reg = "arn" /\ last.known /\ last.historyOk
    /\ sfn.status \in {"FAILED", "TIMED_OUT", "ABORTED"}

\* C14: for an execution that failed, timed out or was aborted the response
\* carries the error type, the message and the step name of the task-failure
\* event nearest the end of the history; only a history without task-failure
\* event falls back to the execution's own error and cause.
C14_ErrorDetailsOfNearestTaskFailure ==
    FailedResponse =>
        IF FailureIndexes(sfn.history) # {}
        THEN /\ last.response.error = OrElse(LastFailure(sfn.history).error, "TaskFailed")
             /\ last.response.message =
                    OrElse(Cause(LastFailure(sfn.history).error), "Task execution failed")
             /\ last.response.errorStep = FailedStep(sfn.history)
        ELSE /\ last.response.error = OrElse(sfn.error, "DeploymentFailed")
             /\ last.response.message = OrElse(Cause(sfn.error), "Deployment failed")

\* The failed DeployEC2 task is reported as step "Execution" or "Unknown".
C14_FailedStepNotNamed ==
    /\ FailedResponse
    /\ FailureIndexes(sfn.history) # {}
    /\ FailedStep(sfn.history) = "DeployEC2"
    /\ last.response.errorStep \in {"Execution", "Unknown"}

\* A status request for which there is no execution to report on: no record of
\* the user, a record without execution id, or an id the orchestrator lacks.
MissingExecution ==
    /\ last.op = "status"
    /\ last.reg \in {"none", "noArn"} \/ ~last.known

\* C15: getDeploymentStatus never fails for a missing execution: without a
\* registry record, without an execution id in it, or without an execution for
\* the id at the orchestrator, the result is NOT_FOUND and not an error.
C15_MissingExecutionIsNotFound ==
    MissingExecution => last.response.status = "NOT_FOUND"

\* The record names an execution the orchestrator does not have: the answer
\* is a 500 with status FAILED.
C15_UnknownExecutionIsFailed ==
    /\ last.op = "status" /\ last.reg = "arn" /\ ~last.known
    /\ last.response.statusCode = 500
    /\ last.response.status = "FAILED"

WaitOutcome ==
    CASE wait.result.kind = "none" -> "waiting"
      [] wait.result.kind = "returned" /\ wait.result.success -> "Success"
      [] wait.result.kind = "returned" /\ wait.result.error = "Command timed out" -> "deadline"
      [] wait.result.kind = "returned" -> "failed"
      [] wait.result.message = "Timeout waiting for SSM command" -> "deadline"
      [] wait.result.message \in {"SSM command failed with status: " \o st :
                                     st \in {"Failed", "Cancelled", "TimedOut"}} -> "failed"
      [] OTHER -> "error"

DeadlinePassed == wait.elapsed >= wait.timeout

C18_PollingStopsAndIsCancellable ==
    /\ [](hook.terminal => ~hook.interval)
    /\ [][hook.terminal /\ last'.op # "startPolling" => hook'.sent = hook.sent]_vars
    /\ [][last'.op = "stopPolling" =>
            /\ ~hook'.interval
            /\ hook'.sent = hook.sent
            /\ hook'.inflight = hook.inflight
            /\ hook'.server = hook.server]_vars

\* A later poll of a running interval returned FAILED and the interval is gone.
C18_StoppedOnFailed ==
    /\ last.op = "checkStatus"
    /\ hook.status = "FAILED"
    /\ hook.terminal
    /\ hook.sent >= 2
    /\ ~hook.isPolling
    /\ hook.mounted

\* The request carries both fields and both settings are configured.
ValidAndConfigured ==
    /\ ~last.body.malformed
    /\ last.body.userId \notin NoValues /\ last.body.instanceId \notin NoValues
    /\ last.cfg.workflowArn /\ last.cfg.table

\* C19: the terminate API handler starts an execution and writes to the
\* registry only for a request with userId and instanceId under a configuration
\* with the workflow id and the table; otherwise it answers with an error (400
\* for a missing field, 500 for missing configuration), has started no
\* execution and has written nothing.
C19_TerminateApiValidatesFirst ==
    last.op = "terminateInstance" =>
        /\ last.out.startSent \/ last.out.updateSent \/ last.started > 0 \/ last.wrote
              => ValidAndConfigured
        /\ ~ValidAndConfigured =>
              /\ last.out.response.body.status = "error"
              /\ last.out.response.statusCode =
                    IF last.body.malformed THEN 500
                    ELSE IF last.body.userId \in NoValues THEN 400
                    ELSE IF last.body.instanceId \in NoValues THEN 400
                    ELSE 500
              /\ last.started = 0
              /\ ~last.wrote

\* A request without instanceId against a working orchestrator is refused with
\* 400 and leaves no trace.
C19_MissingInstanceIdRefused ==
    /\ last.op = "terminateInstance"
    /\ last.body.userId \in Users /\ last.body.instanceId = "absent"
    /\ last.cfg.workflowArn /\ last.cfg.table
    /\ last.start = "none"
    /\ last.out.response.statusCode = 400
    /\ last.started = 0

\* C20: once the orchestrator has accepted the terminate execution the handler
\* answers with the success response even if the registry update fails, and no
\* response carries the execution identifier.
C20_AcceptedMeansSuccess ==
    last.op = "terminateInstance" =>
        /\ last.arn # NoArn =>
              /\ last.out.response.statusCode = 200
              /\ last.out.response.body.status = "success"
        /\ DOMAIN last.out.response.body \subseteq {"status", "message", "error"}

\* The execution was started, the registry update failed, the answer is 200.
C20_SuccessAfterFailedUpdate ==
    /\ last.op = "terminateInstance"
    /\ last.arn # NoArn
    /\ ~last.updOk
    /\ ~last.wrote
    /\ last.out.response.statusCode = 200

\* The password command of the last configure call failed: it threw or it
\* returned without success.
PasswordStepFailed ==
    /\ last.op = "configureDcvInstance" /\ last.fieldsOk
    /\ last.results[1].thrown \/ ~last.results[1].success

\* C21: the configure handler reports success exactly when both passwordSet
\* and sslConfigured are true; a failed password or TLS command shows in the
\* flags and the message and is never thrown; a failed password step does not
\* keep the handler from going on to the following steps, the TLS steps.
C21_PartialFailureIsReported ==
    last.op = "configureDcvInstance" /\ last.fieldsOk =>
        /\ ~last.out.thrown
        /\ last.out.success <=> (last.out.passwordSet /\ last.out.sslConfigured)
        /\ PasswordStepFailed => ~last.out.passwordSet /\ last.out.attempted >= 2

\* The password command threw and no other command was run.
C21_ThrownPasswordSkipsTls ==
    /\ PasswordStepFailed
    /\ last.results[1].thrown
    /\ last.out.attempted = 1
    /\ ~last.out.thrown /\ ~last.out.success

\* C27: getDCVSession runs the install only when the dcvConfigured tag is not
\* set, and sets the tag only after the install command ended with Success;
\* when the install fails or times out the tag stays unset, no session is
\* created, and the error reaches the caller.
C27_InstallOnlyWhenUntagged ==
    last.op = "getDCVSession" =>
        /\ last.out.installRan => ~last.configured
        /\ last.out.tagged => ~last.configured /\ last.install = "Success"
        /\ ~last.configured /\ last.describeOk /\ last.install # "Success" =>
              /\ ~dcv.configured
              /\ ~last.out.sessionCreated
              /\ last.out.thrown

\* The install command was sent and ended Failed: no tag, no session, an error.
C27_FailedInstallLeavesUntagged ==
    /\ last.op = "getDCVSession"
    /\ last.out.installRan
    /\ last.install = "Failed"
    /\ ~dcv.configured
    /\ dcv.sessions = 0
    /\ last.out.thrown

\* The step is taken on behalf of user u: a request of u to the API, or a step
\* of a workflow execution started for u.
ActsFor(u) ==
    \/ \E putOk \in BOOLEAN : handleDeployInstance(u, putOk)
    \/ \E e \in Execs :
          /\ dep[e].user = u
          /\ \/ CheckRunningStreams(e)
             \/ \E o \in DeployOutcomes : DeployEC2(e, o)
             \/ \E p \in BOOLEAN, c \in BOOLEAN : ConfigureDcvInstance(e, p, c)
             \/ \E o \in PersistOutcomes : UpdateRunningStreams(e, o)
    \/ \E k \in TerminateTargets, updOk \in BOOLEAN : handleTerminateInstance(u, k, updOk)
    \/ \E t \in Terms :
          /\ ter[t].user = u
          /\ \/ TCheckRunningStreams(t)
             \/ TerminateEC2Step(t)
             \/ \E delOk \in BOOLEAN : TUpdateRunningStreams(t, delOk)

\* The step leaves alone every RunningInstances and RunningStreams item of a
\* user other than u.
TouchesOnly(u) ==
    /\ \A k \in Keys :
          instances'[k] # instances[k] =>
              instances[k].userId \in {u, NoUser} /\ instances'[k].userId \in {u, NoUser}
    /\ SelectSeq(streamSeq, LAMBDA e : dep[e].user # u)
          = SelectSeq(streamSeq', LAMBDA e : dep'[e].user # u)

\* C22: no action done for user A creates, updates or deletes a
\* RunningInstances or RunningStreams item that belongs to another user B.
C22_NoActionOnAnotherUsersRecord ==
    [][\A u \in Users : ActsFor(u) => TouchesOnly(u)]_vars

\* The item of an instance of one user carries status terminating and the
\* execution id of a terminate request made for the other user.
C22_TerminateRequestMarksForeignInstance ==
    \E k \in Keys, t \in Terms :
        /\ instances[k].userId \in Users
        /\ ter[t].user \in Users
        /\ ter[t].user # instances[k].userId
        /\ instances[k].status = "terminating"
        /\ instances[k].executionArn = <<"T", t>>

\* The step information the aggregator computes for the execution.
StepInfoOf(exec) == getStepInfoFromHistory(exec.history, IncludesTerminate(exec.arn))
Succeeded(exec) == \E i \in 1..Len(exec.history) : exec.history[i].type = "ExecutionSucceeded"

NamedStates == {"pending", "stopping", "shutting-down", "terminated", "running", "stopped"}

\* The canTerminate call in last was answered about the instance: with its
\* state, or, for an instance the backend does not know, with either of the
\* backend's two ways of saying so.
Answered ==
    /\ last.op = "canTerminate"
    /\ \/ last.reply.kind = "instance"
       \/ last.state = "not-found"

\* C25: canTerminate never issues a terminate call and its outcome is fixed by
\* the backend state: true for running and stopped; for stopping, true once
\* the wait has seen the instance stopped; false for an instance the backend
\* does not know; the unsupported-state failure for a state outside the six
\* the switch names.
C25_CanTerminateDecidesByState ==
    Answered =>
        /\ sent = last.sentBefore
        /\ last.state \in {"running", "stopped"} => last.result = Value(TRUE)
        /\ last.state = "stopping" /\ ~last.result.threw =>
              last.result = Value(TRUE) /\ backend = "stopped"
        /\ last.state = "not-found" => last.result = Value(FALSE)
        /\ last.state \notin NamedStates \cup {"not-found"} =>
              last.result = Throw(MsgUnsupported)

\* The backend answered InvalidInstanceID.NotFound for an instance it does not
\* know and canTerminate threw that error instead of returning false.
C25_UnknownInstanceThrows ==
    /\ last.op = "canTerminate"
    /\ last.state = "not-found"
    /\ last.reply = [kind |-> "error", msg |-> MsgBackendNotFound]
    /\ last.result = Throw(MsgBackendNotFound)
    /\ sent = last.sentBefore

\* handleStreamingLink: the RunningStreams items of the user; none gives 404
\* "Not Found", otherwise 200 with the first item.
handleStreamingLink(u) ==
    LET results == QueryStreamsByUser(u) IN
    IF Len(results) = 0
    THEN [statusCode |-> 404, stream |-> 0]
    ELSE [statusCode |-> 200, stream |-> results[1]]

\* The terminate workflow's last step has just completed execution last.t.
TerminateCompleted ==
    /\ last.op = "TUpdateRunningStreams"
    /\ ter[last.t].pc = "TerminationSuccess"

\* C26: when a terminate workflow has completed successfully for a user, no
\* RunningStreams item remains for the terminated instance and the
\* streaming-session request of that user is answered not found, no deploy
\* having written since.
C26_NoSessionAfterTermination ==
    TerminateCompleted =>
        /\ \A i \in 1..Len(streamSeq) : streamSeq[i] # ter[last.t].inst
        /\ handleStreamingLink(ter[last.t].user).statusCode = 404

\* The workflow completed and deleted its instance's item, and the user's
\* request is still answered with the session of another instance.
C26_SessionLeftAfterTermination ==
    /\ TerminateCompleted
    /\ \A i \in 1..Len(streamSeq) : streamSeq[i] # ter[last.t].inst
    /\ handleStreamingLink(ter[last.t].user).statusCode = 200
    /\ handleStreamingLink(ter[last.t].user).stream # ter[last.t].inst

\* Execution e of the deploy workflow has ended, in success or in failure.
DeployEnded(e) == dep[e].pc \in {"DeploymentSuccess", "Failed"}

\* The placeholder item handleDeployInstance wrote for execution e is still
\* in status deploying.
PlaceholderDeploying(e) == instances[PlaceholderId(e)].status = "deploying"

\* C28: the placeholder item written when a deploy is started is deleted or
\* leaves status deploying some time after its execution has ended, also when
\* the execution failed.
C28_PlaceholderSettlesAfterExecution ==
    \A e \in Execs : (DeployEnded(e) /\ PlaceholderDeploying(e)) ~> ~PlaceholderDeploying(e)

\* Every started execution has ended, so that no workflow step is left to
\* run, and the placeholder of a deploy that failed with StreamAlreadyActive
\* is still in status deploying.
C28_PlaceholderOfFailedDeployStays ==
    /\ \A e \in Execs : dep[e].pc \in {"idle", "DeploymentSuccess", "Failed"}
    /\ \A t \in Terms : ter[t].pc \in {"idle", "TerminationSuccess", "Failed"}
    /\ \E e \in Execs : /\ dep[e].pc = "Failed"
                        /\ dep[e].error = "StreamAlreadyActive"
                        /\ PlaceholderDeploying(e)

\* C29: once stopPolling has returned, a checkStatus that continues with the
\* answer of a request calls none of onStatusChange, onSuccess and onError,
\* also for a request that was under way when polling was stopped.
C29_NoCallbackAfterStopPolling ==
    last.op = "checkStatus" /\ last.cancelled => last.called = {}

\* Polling was started once and stopped with a request under way; the request
\* came back SUCCEEDED and checkStatus called onStatusChange and onSuccess.
C29_CallbackAfterStopPolling ==
    /\ last.op = "checkStatus"
    /\ last.cancelled
    /\ hook.session = 1
    /\ last.s = 1
    /\ last.called = {"onStatusChange", "onSuccess"}

\* C30: in one polling session onSuccess is called at most once and onError
\* at most once, also when several requests of the session are under way
\* together and more than one comes back with a terminal status.
C30_TerminalCallbackAtMostOnce ==
    /\ hook.onSuccess <= 1
    /\ hook.onError <= 1

\* Polling was started once, two of its requests came back SUCCEEDED and
\* onSuccess was called for each.
C30_OnSuccessCalledTwice ==
    /\ last.op = "checkStatus"
    /\ hook.session = 1
    /\ ~hook.cancelled
    /\ hook.onSuccess = 2

====
